---- MODULE Spec2Model ----
(***************************************************************************)
(* A model of the RozetkaPay client: Config (config.go), ErrorResponse     *)
(* (errors), the request/response schemas and Client (client.go).          *)
(*                                                                         *)
(* One caller drives one Client.  A call is taken in two steps, split at   *)
(* the only blocking point of Send, the round trip c.httpClient.Do(req):   *)
(* the first step runs the per-operation method up to and including the    *)
(* dispatch, the second is the transport's answer and the rest of Send and *)
(* of the per-operation method.                                            *)
(***************************************************************************)
EXTENDS Integers, Sequences, FiniteSets, TLC

(***************************************************************************)
(* Strings.  TLC strings support Len, \o and SubSeq; a character is a      *)
(* one-character string.                                                   *)
(***************************************************************************)
Char(s, i) == SubSeq(s, i, i)

\* Printable ASCII in code order: codes 35 (#) to 91 ([) and 93 (]) to 126 (~);
\* the "." of AsciiHigh holds the place of code 96, the backquote, and is
\* never found there because AsciiLow is searched first.
AsciiLow == "#$%&'()*+,-./0123456789:;<=>?@ABCDEFGHIJKLMNOPQRSTUVWXYZ["

AsciiHigh == "]^_.abcdefghijklmnopqrstuvwxyz{|}~"

\* The byte of a printable ASCII character (double quote, backslash and
\* backquote, which no string of the model contains, left out).
Byte(c) ==
  IF c = " " THEN 32
  ELSE IF c = "!" THEN 33
  ELSE IF \E i \in 1..Len(AsciiLow) : Char(AsciiLow, i) = c
    THEN 34 + (CHOOSE i \in 1..Len(AsciiLow) : Char(AsciiLow, i) = c)
  ELSE 92 + (CHOOSE i \in 1..Len(AsciiHigh) : Char(AsciiHigh, i) = c)

StdAlphabet ==
  "ABCDEFGHIJKLMNOPQRSTUVWXYZabcdefghijklmnopqrstuvwxyz0123456789+/"

Sextet(n) == Char(StdAlphabet, n + 1)

\* base64.StdEncoding.EncodeToString of the bytes of s (RFC 4648, padded).
RECURSIVE EncodeToString(_)
EncodeToString(s) ==
  IF Len(s) = 0 THEN ""
  ELSE IF Len(s) = 1 THEN
    LET n == Byte(Char(s, 1)) * 65536
    IN  Sextet(n \div 262144) \o Sextet((n \div 4096) % 64) \o "=="
  ELSE IF Len(s) = 2 THEN
    LET n == Byte(Char(s, 1)) * 65536 + Byte(Char(s, 2)) * 256
    IN  Sextet(n \div 262144) \o Sextet((n \div 4096) % 64)
          \o Sextet((n \div 64) % 64) \o "="
  ELSE
    LET n == Byte(Char(s, 1)) * 65536 + Byte(Char(s, 2)) * 256
               + Byte(Char(s, 3))
    IN  Sextet(n \div 262144) \o Sextet((n \div 4096) % 64)
          \o Sextet((n \div 64) % 64) \o Sextet(n % 64)
          \o EncodeToString(SubSeq(s, 4, Len(s)))

UpperHex == "0123456789ABCDEF"

Letters == "abcdefghijklmnopqrstuvwxyzABCDEFGHIJKLMNOPQRSTUVWXYZ0123456789"

IsAlnum(c) == \E i \in 1..Len(Letters) : Char(Letters, i) = c

\* url.QueryEscape: unreserved characters stay, a space becomes "+", every
\* other byte becomes %XX in upper-case hex.
RECURSIVE QueryEscape(_)
QueryEscape(s) ==
  IF Len(s) = 0 THEN ""
  ELSE LET c    == Char(s, 1)
           rest == QueryEscape(SubSeq(s, 2, Len(s)))
       IN  IF IsAlnum(c) \/ c \in {"-", "_", ".", "~"} THEN c \o rest
           ELSE IF c = " " THEN "+" \o rest
           ELSE "%" \o Char(UpperHex, (Byte(c) \div 16) + 1)
                    \o Char(UpperHex, (Byte(c) % 16) + 1) \o rest

\* fmt.Sprintf(format) with no operands, for formats whose '%' is followed by
\* '%', by nothing, or by a verb character (no flags, width or precision):
\* "%%" prints "%", a trailing "%" prints "%!(NOVERB)" and "%c" prints
\* "%!c(MISSING)"; every other character is copied.
RECURSIVE Sprintf(_)
Sprintf(format) ==
  IF Len(format) = 0 THEN ""
  ELSE LET c == Char(format, 1)
       IN  IF c # "%" THEN c \o Sprintf(SubSeq(format, 2, Len(format)))
           ELSE IF Len(format) = 1 THEN "%!(NOVERB)"
           ELSE IF Char(format, 2) = "%"
             THEN "%" \o Sprintf(SubSeq(format, 3, Len(format)))
           ELSE "%!" \o Char(format, 2) \o "(MISSING)"
                  \o Sprintf(SubSeq(format, 3, Len(format)))

(***************************************************************************)
(* JSON documents, as encoding/json sees them once the bytes are scanned.  *)
(***************************************************************************)
JNull == [t |-> "null"]

JString(s) == [s |-> s, t |-> "string"]

JBool(b) == [t |-> "bool", b |-> b]

JNumber(n) == [n |-> n, t |-> "number"]

\* o: a function from the member names to their JSON values.
JObject(o) == [o |-> o, t |-> "object"]

NoMembers == [k \in {} |-> JNull]

\* A byte slice: either the compact text of a JSON document, or len bytes
\* that are no JSON document (len = 0: the empty slice).
Bytes(doc) == [doc |-> doc, valid |-> TRUE]

NotJSON(len) == [valid |-> FALSE, len |-> len]

RECURSIVE Digits(_)
Digits(n) == IF n < 10 THEN 1 ELSE 1 + Digits(n \div 10)

RECURSIVE JLen(_), MembersLen(_, _)
\* The number of bytes of the compact text of a document.
JLen(d) ==
  CASE d.t = "null"   -> 4
    [] d.t = "bool"   -> IF d.b THEN 4 ELSE 5
    [] d.t = "string" -> Len(d.s) + 2
    [] d.t = "number" -> Digits(d.n)
    [] d.t = "object" ->
         LET n == Cardinality(DOMAIN d.o)
         IN  2 + MembersLen(d.o, DOMAIN d.o) + (IF n = 0 THEN 0 ELSE n - 1)
MembersLen(o, names) ==
  IF names = {} THEN 0
  ELSE LET k == CHOOSE k \in names : TRUE
       IN  Len(k) + 3 + JLen(o[k]) + MembersLen(o, names \ {k})

\* len(b) of a byte slice.
BytesLen(b) == IF b.valid THEN JLen(b.doc) ELSE b.len

(***************************************************************************)
(* Go values.  A pointer is nil or points to a struct value; a struct      *)
(* value is a function from the JSON names of its fields to their values.  *)
(* Each struct type is modelled by the fields listed in Fields: name,      *)
(* kind ("string", "bool", "number", "time", "struct" or "ptr"), element   *)
(* type of a struct or pointer field, and the omitempty option of its tag. *)
(* A float64 is modelled by the whole numbers.                             *)
(***************************************************************************)
\* A time.Time: the date and clock it shows in its location (the first 19
\* characters of its RFC 3339 text), the offset of the location as RFC 3339
\* writes it ("Z" for UTC) and the monotonic clock reading it carries (0:
\* none; time.Now() returns a time with one).
Time(wall, loc, mono) == [wall |-> wall, loc |-> loc, mono |-> mono]

\* time.Time{}
ZeroTime == Time("0001-01-01T00:00:00", "Z", 0)

\* (t Time) MarshalJSON: the RFC 3339 text; the monotonic reading is not part
\* of it.
Format(t) == t.wall \o t.loc

\* Whether (t *Time) UnmarshalJSON accepts the text, as far as its layout
\* goes: date, "T", clock, then "Z" or a signed hh:mm offset.
IsRFC3339(text) ==
  /\ Len(text) \in {20, 25}
  /\ Char(text, 5) = "-" /\ Char(text, 8) = "-" /\ Char(text, 11) = "T"
  /\ Char(text, 14) = ":" /\ Char(text, 17) = ":"
  /\ IF Len(text) = 20 THEN Char(text, 20) = "Z"
     ELSE Char(text, 20) \in {"+", "-"} /\ Char(text, 23) = ":"

\* The time UnmarshalJSON stores for an accepted text.
Parse(text) == Time(SubSeq(text, 1, 19), SubSeq(text, 20, Len(text)), 0)

NilPtr == [nil |-> TRUE]

Ptr(T, val) == [nil |-> FALSE, val |-> val, type |-> T]

F(name, kind, elem, omitempty) ==
  [name |-> name, kind |-> kind, elem |-> elem, omitempty |-> omitempty]

Fields(T) ==
  CASE T = "ErrorResponse" ->
         { F("code", "string", "", FALSE), F("message", "string", "", FALSE),
           F("param", "string", "", FALSE),
           F("payment_id", "string", "", FALSE),
           F("type", "string", "", FALSE) }
    [] T = "PaymentMethod" ->
         { F("type", "string", "", TRUE) }
    [] T = "PaymentResponse" ->
         { F("id", "string", "", FALSE), F("is_success", "bool", "", FALSE),
           F("details", "struct", "PaymentResponseDetails", FALSE) }
    [] T = "PaymentResponseDetails" ->
         { F("created_at", "time", "", FALSE),
           F("status_code", "string", "", FALSE) }
    [] T = "PaymentInfoResponse" ->
         { F("id", "string", "", FALSE), F("confirmed", "bool", "", FALSE) }
    [] T = "AddWalletCustomerResponse" ->
         { F("action_required", "bool", "", FALSE),
           F("status", "string", "", FALSE) }
    [] T = "GetWalletInfoResponse" ->
         { F("external_id", "string", "", FALSE),
           F("rid", "string", "", FALSE) }
    [] T = "DeleteWalletCustomerResponse" ->
         { F("delete", "bool", "", FALSE), F("option_id", "string", "", FALSE) }
    [] T \in {"CustomerData", "Recipient"} ->
         { F("email", "string", "", TRUE),
           F("payment_method", "struct", "PaymentMethod", TRUE) }
    [] T = "CreatePaymentSchema" ->
         { F("amount", "number", "", FALSE),
           F("external_id", "string", "", FALSE), F("mode", "string", "", FALSE),
           F("callback_url", "string", "", TRUE),
           F("result_url", "string", "", TRUE),
           F("confirm", "bool", "", TRUE),
           F("customer", "ptr", "CustomerData", FALSE),
           F("recipient", "ptr", "Recipient", TRUE) }
    [] T \in {"ConfirmPaymentSchema", "CancelPaymentSchema",
              "RefundPaymentSchema"} ->
         { F("external_id", "string", "", FALSE),
           F("amount", "number", "", TRUE),
           F("callback_url", "string", "", TRUE),
           F("payload", "string", "", TRUE) }
    [] T = "PaymentCallbackResendSchema" ->
         { F("external_id", "string", "", FALSE),
           F("operation", "string", "", FALSE) }
    [] T = "AddWalletCustomerSchema" ->
         { F("callback_url", "string", "", FALSE),
           F("result_url", "string", "", FALSE),
           F("payment_method", "struct", "PaymentMethod", FALSE) }
    [] T = "DeleteWalletCustomerSchema" ->
         { F("option_id", "string", "", FALSE), F("type", "string", "", FALSE) }

FieldNames(T) == { f.name : f \in Fields(T) }

Field(T, name) == CHOOSE f \in Fields(T) : f.name = name

RECURSIVE ZeroValue(_)
\* The zero value of a struct type.
ZeroValue(T) ==
  [ name \in FieldNames(T) |->
      LET f == Field(T, name)
      IN  CASE f.kind = "string" -> ""
            [] f.kind = "bool"   -> FALSE
            [] f.kind = "number" -> 0
            [] f.kind = "time"   -> ZeroTime
            [] f.kind = "ptr"    -> NilPtr
            [] f.kind = "struct" -> ZeroValue(f.elem) ]

(***************************************************************************)
(* Errors.  An error value is told from every other by its kind (the       *)
(* constructor that made it) and carries the string its Error() returns.   *)
(***************************************************************************)
NoError == [kind |-> "nil", msg |-> ""]

\* errors.New("response is empty"), the package-level sentinel.
ErrResponseIsEmpty == [kind |-> "ErrResponseIsEmpty", msg |-> "response is empty"]

SyntaxError == [kind |-> "json.SyntaxError", msg |-> "invalid character"]

UnmarshalTypeError ==
  [kind |-> "json.UnmarshalTypeError", msg |-> "json: cannot unmarshal"]

\* The error of http.Client.Do, and the error of reading the response body.
TransportError == [kind |-> "url.Error", msg |-> "dial tcp: connection refused"]

ReadError == [kind |-> "io.ReadAll", msg |-> "unexpected EOF"]

\* url.Parse refusing the URL in http.NewRequest.
URLError == [kind |-> "url.Parse", msg |-> "missing protocol scheme"]

\* (e *ErrorResponse) ErrorCode(): fmt.Errorf(string(e.Code)), the code used
\* as the format string.
ErrorCode(e) == [kind |-> "fmt.Errorf", msg |-> Sprintf(e.code)]

(***************************************************************************)
(* encoding/json.                                                          *)
(***************************************************************************)
RECURSIVE MarshalStruct(_, _), MarshalValue(_, _)
\* json.Marshal of a struct value: a field tagged omitempty is left out when
\* it is "", false, 0 or a nil pointer; a struct-typed field is never empty.
MarshalStruct(T, val) ==
  LET kept == { name \in FieldNames(T) :
                  LET f == Field(T, name)
                  IN  ~ ( /\ f.omitempty
                          /\ \/ f.kind = "string" /\ val[name] = ""
                             \/ f.kind = "bool" /\ val[name] = FALSE
                             \/ f.kind = "number" /\ val[name] = 0
                             \/ f.kind = "ptr" /\ val[name] = NilPtr ) }
  IN  JObject([ name \in kept |-> MarshalValue(Field(T, name), val[name]) ])
MarshalValue(f, v) ==
  CASE f.kind = "string" -> JString(v)
    [] f.kind = "bool"   -> JBool(v)
    [] f.kind = "number" -> JNumber(v)
    [] f.kind = "time"   -> JString(Format(v))
    [] f.kind = "struct" -> MarshalStruct(f.elem, v)
    [] f.kind = "ptr"    -> IF v = NilPtr THEN JNull
                            ELSE MarshalStruct(f.elem, v.val)

\* json.Marshal of a pointer to a struct: null for the nil pointer.
Marshal(p) == IF p = NilPtr THEN JNull ELSE MarshalStruct(p.type, p.val)

\* The outcome of decoding into a field: ok is FALSE when the value (or a
\* value inside it) does not fit the Go type, val is what the field holds
\* afterwards.
Decoded(ok, val) == [val |-> val, ok |-> ok]

\* The outcome r of decoding into the struct a pointer field points to.
Pointed(T, r) == Decoded(r.ok, Ptr(T, r.val))

\* The outcomes r of decoding the members named into the fields of a struct
\* holding cur, put together.
Assembled(T, cur, named, r) ==
  Decoded(\A name \in named : r[name].ok,
          [ name \in FieldNames(T) |->
              IF name \in named THEN r[name].val ELSE cur[name] ])

\* The gateway status codes and payment statuses the package names, as far
\* as the model uses them.
KnownValues == {"transaction_declined", "init", "pending", "success", "failure"}

\* DecodeString with a plausible slip: the string-backed enumerations are
\* closed, a value outside the known ones is refused.
DecodeString_closed(jv, cur) ==
  IF jv.t = "null" THEN Decoded(TRUE, cur)
  ELSE IF jv.t = "string" /\ jv.s \in KnownValues THEN Decoded(TRUE, jv.s)
  ELSE Decoded(FALSE, cur)

\* Decoding into a field whose type is string or is declared from string
\* (PaymentStatusCode, PaymentStatus, PaymentMode, ...): any JSON string is
\* stored as it is.
DecodeString(jv, cur) ==
  IF jv.t = "null" THEN Decoded(TRUE, cur)
  ELSE IF jv.t = "string" THEN Decoded(TRUE, jv.s)
  ELSE Decoded(FALSE, cur)

RECURSIVE DecodeStruct(_, _, _), DecodeValue(_, _, _)
\* Decoding the JSON value jv into a field f holding cur.  null leaves a
\* string, bool, number, time or struct alone and sets a pointer to nil; a
\* pointer that is nil is made to point to a fresh struct before the value is
\* looked at.  (A text that time.Time refuses ends the decoding at once, the
\* members after it in the document stay undecoded; the objects of the model
\* have no order, and no destination is looked at after such an error.)
DecodeValue(f, jv, cur) ==
  CASE f.kind = "string" -> DecodeString(jv, cur)
    [] f.kind = "bool" ->
         IF jv.t = "null" THEN Decoded(TRUE, cur)
         ELSE IF jv.t = "bool" THEN Decoded(TRUE, jv.b)
         ELSE Decoded(FALSE, cur)
    [] f.kind = "number" ->
         IF jv.t = "null" THEN Decoded(TRUE, cur)
         ELSE IF jv.t = "number" THEN Decoded(TRUE, jv.n)
         ELSE Decoded(FALSE, cur)
    [] f.kind = "time" ->
         IF jv.t = "null" THEN Decoded(TRUE, cur)
         ELSE IF jv.t = "string" /\ IsRFC3339(jv.s)
           THEN Decoded(TRUE, Parse(jv.s))
         ELSE Decoded(FALSE, cur)
    [] f.kind = "struct" ->
         IF jv.t = "null" THEN Decoded(TRUE, cur)
         ELSE IF jv.t = "object" THEN DecodeStruct(f.elem, jv.o, cur)
         ELSE Decoded(FALSE, cur)
    [] f.kind = "ptr" ->
         IF jv.t = "null" THEN Decoded(TRUE, NilPtr)
         ELSE IF jv.t = "object"
           THEN Pointed(f.elem,
                  DecodeStruct(f.elem, jv.o,
                    IF cur = NilPtr THEN ZeroValue(f.elem) ELSE cur.val))
         ELSE Decoded(FALSE,
                Ptr(f.elem, IF cur = NilPtr THEN ZeroValue(f.elem) ELSE cur.val))
\* Decoding the members o of a JSON object into a struct holding cur: members
\* with no field of that name are skipped, a member that does not fit is
\* skipped too and the decoding goes on with the next one.
DecodeStruct(T, o, cur) ==
  Assembled(T, cur, FieldNames(T) \cap DOMAIN o,
    [ name \in FieldNames(T) \cap DOMAIN o |->
        DecodeValue(Field(T, name), o[name], cur[name]) ])

\* Unmarshal with a plausible slip: a member that does not fit its field is
\* skipped without an error.
Unmarshal_lenient(data, T, cur) ==
  IF ~ data.valid THEN [val |-> cur, err |-> SyntaxError]
  ELSE IF data.doc.t # "object" THEN [val |-> cur, err |-> NoError]
  ELSE [val |-> DecodeStruct(T, data.doc.o, cur).val, err |-> NoError]

\* What Unmarshal returns for the outcome r of decoding an object.
Reported(r) ==
  [val |-> r.val, err |-> IF r.ok THEN NoError ELSE UnmarshalTypeError]

\* json.Unmarshal(data, p) for p a non-nil pointer to a struct of type T that
\* holds cur.  Invalid bytes (the empty slice too) are refused before
\* anything is stored; null stores nothing; a type mismatch is reported after
\* the rest of the document has been stored.
Unmarshal(data, T, cur) ==
  IF ~ data.valid THEN [val |-> cur, err |-> SyntaxError]
  ELSE IF data.doc.t = "null" THEN [val |-> cur, err |-> NoError]
  ELSE IF data.doc.t # "object" THEN [val |-> cur, err |-> UnmarshalTypeError]
  ELSE Reported(DecodeStruct(T, data.doc.o, cur))

\* What Unmarshal returns once p points to the struct decoded with outcome r.
Allocated(T, r) == [err |-> r.err, ptr |-> Ptr(T, r.val)]

\* json.Unmarshal(data, &p) for p a nil pointer variable of type *T: null
\* leaves p nil, any other valid document makes p point to a fresh struct.
UnmarshalPtr(data, T) ==
  IF ~ data.valid THEN [err |-> SyntaxError, ptr |-> NilPtr]
  ELSE IF data.doc.t = "null" THEN [err |-> NoError, ptr |-> NilPtr]
  ELSE Allocated(T, Unmarshal(data, T, ZeroValue(T)))

(***************************************************************************)
(* config.go                                                               *)
(***************************************************************************)
API_URL == "https://api.rozetkapay.com/api/"

DevLogin == "a6a29002-dc68-4918-bc5d-51a6094b14a8"

DevPassword == "XChz3J8qrr"

NewConfig_unjoined(login, password) ==
  [ API         |-> API_URL,
    BasicAuth   |-> EncodeToString(login \o password),
    ResultURL   |-> "",
    CallbackURL |-> "",
    Debug       |-> FALSE ]

NewConfig(login, password) ==
  [ API         |-> API_URL,
    BasicAuth   |-> EncodeToString(login \o ":" \o password),
    ResultURL   |-> "",
    CallbackURL |-> "",
    Debug       |-> FALSE ]

NewDevelopmentConfig ==
  [ API         |-> API_URL,
    BasicAuth   |-> EncodeToString(DevLogin \o ":" \o DevPassword),
    ResultURL   |-> "",
    CallbackURL |-> "",
    Debug       |-> TRUE ]

\* A setter with a value receiver: the assignment is made to a copy.
SetCallbackURL_copy(c, callbackURL) == c

SetCallbackURL(c, callbackURL) == [c EXCEPT !.CallbackURL = callbackURL]

SetResultURL(c, resultURL) == [c EXCEPT !.ResultURL = resultURL]

SetDebugMode(c, debug) == [c EXCEPT !.Debug = debug]

(***************************************************************************)
(* client.go: requests.                                                    *)
(***************************************************************************)
\* An interface{} argument: the nil interface, or an interface holding a
\* pointer (which may itself be a nil pointer).
NilInterface == [iface |-> "nil"]

Iface(p) == [ptr |-> p, iface |-> "ptr"]

NoBody == [present |-> FALSE]

Body(b) == [present |-> TRUE, bytes |-> b]

NoHeader == [k \in {} |-> <<>>]

NoQuery == [k \in {} |-> ""]

NoRequest == [Body |-> NoBody, Method |-> "", URL |-> "", RawQuery |-> "",
              Header |-> NoHeader]

\* url.Parse as far as http.NewRequest's failure goes: a URL that starts with
\* a colon has no protocol scheme.
ParseFails(url) == Len(url) > 0 /\ Char(url, 1) = ":"

\* url.Values.Encode: key=value pairs, both query-escaped, joined by "&".
\* (Go orders the pairs by key; the maps of the model have at most one key.)
RECURSIVE Encode(_)
Encode(q) ==
  IF DOMAIN q = {} THEN ""
  ELSE LET k    == CHOOSE k \in DOMAIN q : TRUE
           rest == [j \in DOMAIN q \ {k} |-> q[j]]
       IN  QueryEscape(k) \o "=" \o QueryEscape(q[k])
             \o (IF DOMAIN rest = {} THEN "" ELSE "&" \o Encode(rest))

\* (c *Client) NewRequest
NewRequest(method, url, payload, query) ==
  LET buf == IF payload # NilInterface
               THEN Body(Bytes(Marshal(payload.ptr)))
               ELSE NoBody
  IN  IF ParseFails(url)
        THEN [err |-> URLError, req |-> NoRequest]
        ELSE [ err |-> NoError,
               req |-> [ Body     |-> buf,
                         Method   |-> method,
                         URL      |-> url,
                         RawQuery |-> Encode(query),
                         Header   |-> NoHeader ] ]

\* req.URL.String()
URLString(req) ==
  req.URL \o (IF req.RawQuery = "" THEN "" ELSE "?" \o req.RawQuery)

(***************************************************************************)
(* client.go: Send.                                                        *)
(***************************************************************************)
\* The goroutine aborting on a nil pointer dereference, in place of a return.
Panic == [kind |-> "panic", msg |-> "invalid memory address or nil pointer dereference"]

\* The answer of c.httpClient.Do(req): an error, or a response with a status
\* code and a body whose reading fails or yields bytes.
DoError == [err |-> TRUE, readErr |-> FALSE, StatusCode |-> 0,
            body |-> NotJSON(0)]

BrokenBody(status) == [err |-> FALSE, readErr |-> TRUE, StatusCode |-> status,
                       body |-> NotJSON(0)]

Response(status, body) == [err |-> FALSE, readErr |-> FALSE,
                           StatusCode |-> status, body |-> body]

DebugRequestLine(req) ==
  [type |-> "request", url |-> URLString(req), method |-> req.Method,
   level |-> "Debug"]

DebugResponseLine(req, out) ==
  [type |-> "response", code |-> out.StatusCode, bytes |-> BytesLen(out.body),
   url |-> URLString(req), method |-> req.Method,
   level |-> "Debug"]

ErrorLine(e) ==
  [type |-> e.type, code |-> e.code, level |-> "Error", message |-> e.message,
   payment_id |-> e.payment_id]

\* RequestHeader with a plausible slip: the two headers are set on the map
\* the request already has.
RequestHeader_merge(c, old) ==
  [ k \in {"Content-type", "Authorization"} \cup DOMAIN old |->
      IF k = "Content-type" THEN <<"application/json">>
      ELSE IF k = "Authorization" THEN <<"Basic " \o c.BasicAuth>>
      ELSE old[k] ]

\* The header map Send gives the request, whatever map old it had.
RequestHeader(c, old) ==
  [ k \in {"Content-type", "Authorization"} |->
      IF k = "Content-type" THEN <<"application/json">>
      ELSE <<"Basic " \o c.BasicAuth>> ]

\* Send up to the call of c.httpClient.Do: the header map is replaced, the
\* request line is logged when Debug is set, the request is handed over.
\* SendRequest with a plausible slip: the request line is logged once Do has
\* been called.
SendRequest_logafter(c, r) ==
  LET out == [r EXCEPT !.Header = RequestHeader(c, r.Header)]
  IN  [ req    |-> out,
        log    |-> IF c.Debug THEN <<DebugRequestLine(out)>> ELSE <<>>,
        events |-> IF c.Debug THEN <<"Do", "Printf">> ELSE <<"Do">> ]

SendRequest(c, r) ==
  LET out == [r EXCEPT !.Header = RequestHeader(c, r.Header)]
  IN  [ req    |-> out,
        log    |-> IF c.Debug THEN <<DebugRequestLine(out)>> ELSE <<>>,
        events |-> IF c.Debug THEN <<"Printf", "Do">> ELSE <<"Do">> ]

\* Send from the return of c.httpClient.Do on, branch by branch: ret is the
\* returned error (or Panic), v the destination afterwards, log and events
\* what is logged and done on the way.  The deferred resp.Body.Close() runs
\* last, on a panic too.

\* OnDoError with a plausible slip: the request is dispatched a second time
\* before giving up.
OnDoError_retry(v) ==
  [v |-> v, log |-> <<>>, events |-> <<"Do">>, ret |-> TransportError]

\* Do returned an error.
OnDoError(v) ==
  [v |-> v, log |-> <<>>, events |-> <<>>, ret |-> TransportError]

\* OnReadError with a plausible slip: the Close is deferred once the body
\* has been read, so this return skips it.
OnReadError_unclosed(v) ==
  [v |-> v, log |-> <<>>, events |-> <<"ReadAll">>, ret |-> ReadError]

\* io.ReadAll returned an error.
OnReadError(v) ==
  [v |-> v, log |-> <<>>, events |-> <<"ReadAll", "Close">>, ret |-> ReadError]

\* IsFailure with a plausible slip: the upper boundary is excluded.
IsFailure_strict(status) == status < 200 \/ status >= 299

\* resp.StatusCode < 200 || resp.StatusCode > 299
IsFailure(status) == status < 200 \/ status > 299

\* IsEmpty with a plausible slip: a body that is no JSON counts as empty.
IsEmpty_invalid(body) == ~ body.valid

\* len(body) == 0
IsEmpty(body) == BytesLen(body) = 0

\* The status is outside 200..299.
OnFailure(v, out) ==
  IF IsEmpty(out.body)
    THEN [v |-> v, log |-> <<>>, events |-> <<"ReadAll", "Close">>,
          ret |-> ErrResponseIsEmpty]
    ELSE LET u == UnmarshalPtr(out.body, "ErrorResponse")
         IN  IF u.err # NoError
               THEN [v |-> v, log |-> <<>>, events |-> <<"ReadAll", "Unmarshal", "Close">>,
                     ret |-> u.err]
             ELSE IF u.ptr = NilPtr
               THEN [v |-> v, log |-> <<>>, events |-> <<"ReadAll", "Unmarshal", "Close">>,
                     ret |-> Panic]
             ELSE [v |-> v, log |-> <<ErrorLine(u.ptr.val)>>,
                   events |-> <<"ReadAll", "Unmarshal", "Printf", "Close">>,
                   ret |-> ErrorCode(u.ptr.val)]

\* OnSuccess with a plausible slip: with Debug set the body is traced and the
\* decoding is left out.
OnSuccess_traceonly(c, r, v, out) ==
  IF v = NilInterface
    THEN [v |-> v, log |-> <<>>, events |-> <<"ReadAll", "Close">>,
          ret |-> NoError]
  ELSE IF c.Debug
    THEN [v |-> v, log |-> <<DebugResponseLine(r, out)>>,
          events |-> <<"ReadAll", "Printf", "Close">>,
          ret |-> NoError]
  ELSE LET u == Unmarshal(out.body, v.ptr.type, v.ptr.val)
       IN  [ v      |-> Iface(Ptr(v.ptr.type, u.val)),
             log    |-> <<>>,
             events |-> <<"ReadAll", "Unmarshal", "Close">>,
             ret    |-> u.err ]

\* The status is in 200..299.
OnSuccess(c, r, v, out) ==
  IF v = NilInterface
    THEN [v |-> v, log |-> <<>>, events |-> <<"ReadAll", "Close">>,
          ret |-> NoError]
    ELSE LET u == Unmarshal(out.body, v.ptr.type, v.ptr.val)
         IN  [ v      |-> Iface(Ptr(v.ptr.type, u.val)),
               log    |-> IF c.Debug THEN <<DebugResponseLine(r, out)>>
                          ELSE <<>>,
               events |-> IF c.Debug
                            THEN <<"ReadAll", "Printf", "Unmarshal", "Close">>
                            ELSE <<"ReadAll", "Unmarshal", "Close">>,
               ret    |-> u.err ]

SendResponse(c, r, v, out) ==
  IF out.err THEN OnDoError(v)
  ELSE IF out.readErr THEN OnReadError(v)
  ELSE IF IsFailure(out.StatusCode) THEN OnFailure(v, out)
  ELSE OnSuccess(c, r, v, out)

(***************************************************************************)
(* The inputs of the model.                                                *)
(***************************************************************************)
\* A value the caller may store in the exported field Config.API: a string
\* that is no URL.
APIs == {":"}

URLs == {"https://shop.example/hook", ""}

ExternalIDs == {"ext-123", "a b&c"}

\* Gateway status codes: one of the known table, one outside it, and codes
\* with a per cent sign.
Codes == {"transaction_declined", "future_code", "limit_50%_reached", "100%"}

Statuses == {199, 200, 299, 300}

Bodies ==
  { NotJSON(0), NotJSON(6), Bytes(JNull), Bytes(JNumber(42)),
    Bytes(JObject(NoMembers)) }
  \cup { Bytes(JObject([code |-> JString(c)])) : c \in Codes }
  \cup { Bytes(JObject([type |-> JString("t"),
                        code |-> JString("transaction_declined"), message |-> JString("m"),
                        payment_id |-> JString("id1"), param |-> JString("p")])),
         Bytes(JObject([code |-> JNumber(7)])),
         Bytes(JObject([code |-> JNull])),
         Bytes(JObject([id |-> JString("pay-1"), is_success |-> JBool(TRUE)])),
         Bytes(JObject([id |-> JNumber(5), is_success |-> JBool(TRUE)])),
         Bytes(JObject([id |-> JNull, is_success |-> JBool(FALSE)])),
         Bytes(JObject([delete |-> JBool(TRUE), option_id |-> JString("o1")])),
         Bytes(JObject([status |-> JString("future_status"),
                        action_required |-> JBool(FALSE)])) }

Outcomes ==
  {DoError, BrokenBody(200), BrokenBody(300)}
  \cup { Response(s, b) : s \in Statuses, b \in Bodies }

\* The schemas a caller passes: some values of each type, and the nil pointer.
Schemas(T) ==
  CASE T = "CreatePaymentSchema" ->
         { NilPtr,
           Ptr(T, [ZeroValue(T) EXCEPT !.external_id = "ext-123",
                                       !.mode = "hosted"]),
           Ptr(T, [ZeroValue(T) EXCEPT
                     !.external_id = "ext-123", !.mode = "direct",
                     !.callback_url = "https://shop.example/cb",
                     !.confirm = TRUE,
                     !.customer = Ptr("CustomerData",
                        [ email |-> "a@b.c",
                          payment_method |-> [type |-> "cc_token"] ])]),
           Ptr(T, [ZeroValue(T) EXCEPT
                     !.amount = 100, !.external_id = "ext-123",
                     !.mode = "direct"]),
           Ptr(T, [ZeroValue(T) EXCEPT
                     !.amount = 100, !.external_id = "ext-123",
                     !.mode = "hosted",
                     !.customer = Ptr("CustomerData",
                        [ZeroValue("CustomerData") EXCEPT
                           !.email = "a@b.c"])]) }
    [] T \in {"ConfirmPaymentSchema", "CancelPaymentSchema",
              "RefundPaymentSchema"} ->
         { Ptr(T, [ZeroValue(T) EXCEPT !.external_id = "ext-123",
                                       !.payload = "note"]) }
    [] T = "PaymentCallbackResendSchema" ->
         { Ptr(T, [external_id |-> "ext-123", operation |-> "payment"]) }
    [] T = "AddWalletCustomerSchema" ->
         { Ptr(T, [ZeroValue(T) EXCEPT !.payment_method = [type |-> "wallet"]]) }
    [] T = "DeleteWalletCustomerSchema" ->
         { Ptr(T, [type |-> "cc_token", option_id |-> "o1"]) }

\* The requests a caller hands to Send itself: built by NewRequest and then
\* given headers of the caller's own.
UserHeaders ==
  { NoHeader,
    [ k \in {"Authorization", "Accept"} |->
        IF k = "Authorization" THEN <<"Bearer t">> ELSE <<"text/xml">> ] }

UserRequests ==
  { [ NewRequest("POST", API_URL \o "payments/v1/new",
                 Iface(NilPtr), NoQuery).req EXCEPT !.Header = h ] :
      h \in UserHeaders }

\* The destinations a caller hands to Send itself: nil, or a pointer to a
\* fresh or to a used PaymentResponse.
Destinations ==
  { NilInterface,
    Iface(Ptr("PaymentResponse", ZeroValue("PaymentResponse"))),
    Iface(Ptr("PaymentResponse",
              [ZeroValue("PaymentResponse") EXCEPT !.id = "old",
                                                   !.is_success = TRUE])) }

\* The PaymentResponse values a caller serializes: the zero value, one as
\* decoded from a gateway body, and one whose creation time the caller took
\* from time.Now().
PaymentResponses ==
  { ZeroValue("PaymentResponse"),
    [ZeroValue("PaymentResponse") EXCEPT
       !.id = "pay-1", !.is_success = TRUE,
       !.details = [created_at  |-> Time("2024-05-06T07:08:09", "+02:00", 0),
                    status_code |-> "future_code"]],
    [ZeroValue("PaymentResponse") EXCEPT
       !.id = "pay-2",
       !.details = [created_at  |-> Time("2024-05-06T07:08:09", "+02:00", 7),
                    status_code |-> "transaction_declined"]] }

(***************************************************************************)
(* The state.                                                              *)
(***************************************************************************)
VARIABLES
  cfg,     \* the Config the Client holds (c.c)
  hist,    \* how cfg was constructed, what the constructor returned and
           \* the last argument of each setter called on it since (history
           \* variable)
  pc,      \* "idle", "inflight" (inside Do), "returned" or "panicked"
  call,    \* the call in progress: operation, arguments (body: the bytes
           \* given to GetPaymentCallbackFromBytes), request handed to Send
  sent,    \* the requests handed to c.httpClient.Do during the call
  resp,    \* what Do answered
  v,       \* the destination of Send
  ret,     \* what Send returned
  result,  \* what the per-operation method returned
  log,     \* the lines logged during the call
  events   \* the steps of the call, in order: "Printf" for a line logged
           \* (the lines are in log, in the same order), "Do", "ReadAll",
           \* "Unmarshal" and "Close"

vars == <<cfg, hist, pc, call, sent, resp, v, ret, result, log, events>>

NoCall == [v |-> NilInterface, payload |-> NilInterface, query |-> NoQuery,
           req |-> NoRequest, body |-> NotJSON(0), op |-> ""]

NotReturned == [kind |-> "none", msg |-> ""]

NoResult == [err |-> NotReturned, resp |-> NilPtr, resended |-> FALSE]

\* The credentials NewConfig is called with ("login" and "password" are not
\* validated: either may be empty or hold a colon), and <<>> for
\* NewDevelopmentConfig, which takes none.
Constructors == {<<>>, <<"login", "password">>, <<"", "p:w">>}

Construct(args) == IF args = <<>> THEN NewDevelopmentConfig
                   ELSE NewConfig(args[1], args[2])

\* The history of a Config just returned by its constructor: the arguments,
\* the Config as returned, and no setter called nor field stored to yet.
Constructed(args) ==
  [ API |-> <<>>, ResultURL |-> <<>>, CallbackURL |-> <<>>, Debug |-> <<>>,
    args |-> args, made |-> Construct(args) ]

Init ==
  /\ \E args \in Constructors : /\ cfg = Construct(args)
                                /\ hist = Constructed(args)
  /\ pc = "idle"
  /\ call = NoCall
  /\ sent = <<>>
  /\ resp = DoError
  /\ v = NilInterface
  /\ ret = NotReturned
  /\ result = NoResult
  /\ log = <<>>
  /\ events = <<>>

(***************************************************************************)
(* The caller configures the Client between calls.                         *)
(***************************************************************************)
ConfigSetCallbackURL(u) ==
  /\ pc = "idle"
  /\ cfg' = SetCallbackURL(cfg, u)
  /\ hist' = [hist EXCEPT !.CallbackURL = <<u>>]
  /\ UNCHANGED <<pc, call, sent, resp, v, ret, result, log, events>>

ConfigSetResultURL(u) ==
  /\ pc = "idle"
  /\ cfg' = SetResultURL(cfg, u)
  /\ hist' = [hist EXCEPT !.ResultURL = <<u>>]
  /\ UNCHANGED <<pc, call, sent, resp, v, ret, result, log, events>>

ConfigSetDebugMode(b) ==
  /\ pc = "idle"
  /\ cfg' = SetDebugMode(cfg, b)
  /\ hist' = [hist EXCEPT !.Debug = <<b>>]
  /\ UNCHANGED <<pc, call, sent, resp, v, ret, result, log, events>>

\* A store to the exported field Config.API.
ConfigAssignAPI(u) ==
  /\ pc = "idle"
  /\ cfg' = [cfg EXCEPT !.API = u]
  /\ hist' = [hist EXCEPT !.API = <<u>>]
  /\ UNCHANGED <<pc, call, sent, resp, v, ret, result, log, events>>

(***************************************************************************)
(* The calls.                                                              *)
(***************************************************************************)
\* Send(r, dst) entered: everything up to the round trip.
EnterSend(op, payload, query, r, dst) ==
  LET s == SendRequest(cfg, r)
  IN  /\ pc' = "inflight"
      /\ call' = [v |-> dst, payload |-> payload, query |-> query,
                  req |-> r, body |-> NotJSON(0), op |-> op]
      /\ sent' = <<s.req>>
      /\ v' = dst
      /\ log' = s.log
      /\ events' = s.events
      /\ UNCHANGED <<cfg, hist, resp, ret, result>>

\* A per-operation method entered: NewRequest, the early return on its error,
\* the destination allocated, Send entered.
Operation(op, method, path, payload, query, dst) ==
  LET nr == NewRequest(method, cfg.API \o path, payload, query)
  IN  /\ pc = "idle"
      /\ IF nr.err # NoError
           THEN /\ pc' = "returned"
                /\ call' = [v |-> NilInterface, payload |-> payload,
                            query |-> query, req |-> NoRequest, body |-> NotJSON(0),
                            op |-> op]
                /\ result' = [err |-> nr.err, resp |-> NilPtr,
                              resended |-> FALSE]
                /\ UNCHANGED <<cfg, hist, sent, resp, v, ret, log, events>>
           ELSE EnterSend(op, payload, query, nr.req, dst)

New(T) == Iface(Ptr(T, ZeroValue(T)))

CreatePayment(schema) ==
  Operation("CreatePayment", "POST", "payments/v1/new",
            Iface(schema), NoQuery, New("PaymentResponse"))

ConfirmPayment(schema) ==
  Operation("ConfirmPayment", "POST", "payments/v1/confirm",
            Iface(schema), NoQuery, New("PaymentResponse"))

CancelPayment(schema) ==
  Operation("CancelPayment", "POST", "payments/v1/cancel",
            Iface(schema), NoQuery, New("PaymentResponse"))

RefundPayment(schema) ==
  Operation("RefundPayment", "POST", "payments/v1/refund",
            Iface(schema), NoQuery, New("PaymentResponse"))

GetPaymentInfo(externalID) ==
  Operation("GetPaymentInfo", "GET", "payments/v1/info",
            NilInterface, [k \in {"external_id"} |-> externalID],
            New("PaymentInfoResponse"))

ResendPaymentCallback(schema) ==
  Operation("ResendPaymentCallback", "POST", "payments/v1/callback/resend",
            Iface(schema), NoQuery, NilInterface)

AddWalletCustomerPayment(customerID, schema) ==
  Operation("AddWalletCustomerPayment", "POST", "customers/v1/wallet",
            Iface(schema), [k \in {"external_id"} |-> customerID],
            New("AddWalletCustomerResponse"))

GetWalletCustomerPaymentInfo(customerID) ==
  Operation("GetWalletCustomerPaymentInfo", "GET", "customers/v1/wallet",
            NilInterface, [k \in {"external_id"} |-> customerID],
            New("GetWalletInfoResponse"))

\* DeleteWalletCustomerPayment with a plausible slip: the method of the
\* neighbouring AddWalletCustomerPayment.
DeleteWalletCustomerPayment_post(customerID, schema) ==
  Operation("DeleteWalletCustomerPayment", "POST", "customers/v1/wallet",
            Iface(schema), [k \in {"external_id"} |-> customerID],
            New("DeleteWalletCustomerResponse"))

DeleteWalletCustomerPayment(customerID, schema) ==
  Operation("DeleteWalletCustomerPayment", "DELETE", "customers/v1/wallet",
            Iface(schema), [k \in {"external_id"} |-> customerID],
            New("DeleteWalletCustomerResponse"))

\* The caller calls Send itself.
Send(r, dst) ==
  /\ pc = "idle"
  /\ EnterSend("Send", NilInterface, NoQuery, r, dst)

\* What the per-operation method returns once Send has returned s.
MethodReturn(op, s) ==
  IF op = "Send" THEN NoResult
  ELSE IF op = "ResendPaymentCallback"
    THEN IF s.ret # NoError
           THEN [err |-> s.ret, resp |-> NilPtr, resended |-> FALSE]
           ELSE [err |-> NoError, resp |-> NilPtr, resended |-> TRUE]
  ELSE IF s.ret # NoError
    THEN [err |-> s.ret, resp |-> NilPtr, resended |-> FALSE]
    ELSE [err |-> NoError, resp |-> s.v.ptr, resended |-> FALSE]

\* FromBytes with a plausible slip: the test of the error is inverted.
FromBytes_inverted(src, body) ==
  LET u == UnmarshalPtr(body, "PaymentResponse")
  IN  /\ pc = "idle"
      /\ pc' = "returned"
      /\ call' = [NoCall EXCEPT !.op = "GetPaymentCallbackFromBytes",
                                !.payload = src, !.body = body]
      /\ result' = IF u.err = NoError
                     THEN [err |-> u.err, resp |-> NilPtr, resended |-> FALSE]
                     ELSE [err |-> NoError, resp |-> u.ptr, resended |-> FALSE]
      /\ events' = <<"Unmarshal">>
      /\ UNCHANGED <<cfg, hist, sent, resp, v, ret, log>>

\* The body of GetPaymentCallbackFromBytes: the bytes are decoded into a nil
\* *PaymentResponse variable; the pointer is returned when Unmarshal reports
\* no error, nil and the error otherwise.  No request is made.  src is the
\* value the bytes were made of, when the caller made them of one.
FromBytes(src, body) ==
  LET u == UnmarshalPtr(body, "PaymentResponse")
  IN  /\ pc = "idle"
      /\ pc' = "returned"
      /\ call' = [NoCall EXCEPT !.op = "GetPaymentCallbackFromBytes",
                                !.payload = src, !.body = body]
      /\ result' = IF u.err # NoError
                     THEN [err |-> u.err, resp |-> NilPtr, resended |-> FALSE]
                     ELSE [err |-> NoError, resp |-> u.ptr, resended |-> FALSE]
      /\ events' = <<"Unmarshal">>
      /\ UNCHANGED <<cfg, hist, sent, resp, v, ret, log>>

\* (c *Client) GetPaymentCallbackFromBytes on the bytes of a webhook.
GetPaymentCallbackFromBytes(body) == FromBytes(NilInterface, body)

\* The caller serializes a PaymentResponse with json.Marshal and passes the
\* bytes to GetPaymentCallbackFromBytes.
SerializedCallback(r) ==
  FromBytes(Iface(Ptr("PaymentResponse", r)),
            Bytes(Marshal(Ptr("PaymentResponse", r))))

\* The round trip ends with the answer out: the rest of Send, then the rest
\* of the per-operation method.  A panic ends the goroutine.
RoundTrip(out) ==
  LET s == SendResponse(cfg, sent[Len(sent)], v, out)
  IN  /\ pc = "inflight"
      /\ resp' = out
      /\ ret' = s.ret
      /\ v' = s.v
      /\ log' = log \o s.log
      /\ events' = events \o s.events
      /\ IF s.ret = Panic
           THEN pc' = "panicked" /\ result' = NoResult
           ELSE pc' = "returned" /\ result' = MethodReturn(call.op, s)
      /\ UNCHANGED <<cfg, hist, call, sent>>

\* The method has returned: its frame is gone and the caller goes on.
Return ==
  /\ pc = "returned"
  /\ pc' = "idle"
  /\ call' = NoCall
  /\ sent' = <<>>
  /\ resp' = DoError
  /\ v' = NilInterface
  /\ ret' = NotReturned
  /\ result' = NoResult
  /\ log' = <<>>
  /\ events' = <<>>
  /\ UNCHANGED <<cfg, hist>>

Next ==
  \/ \E u \in URLs : ConfigSetCallbackURL(u)
  \/ \E u \in URLs : ConfigSetResultURL(u)
  \/ \E b \in BOOLEAN : ConfigSetDebugMode(b)
  \/ \E u \in APIs : ConfigAssignAPI(u)
  \/ \E s \in Schemas("CreatePaymentSchema") : CreatePayment(s)
  \/ \E s \in Schemas("ConfirmPaymentSchema") : ConfirmPayment(s)
  \/ \E s \in Schemas("CancelPaymentSchema") : CancelPayment(s)
  \/ \E s \in Schemas("RefundPaymentSchema") : RefundPayment(s)
  \/ \E id \in ExternalIDs : GetPaymentInfo(id)
  \/ \E s \in Schemas("PaymentCallbackResendSchema") : ResendPaymentCallback(s)
  \/ \E id \in ExternalIDs, s \in Schemas("AddWalletCustomerSchema") :
       AddWalletCustomerPayment(id, s)
  \/ \E id \in ExternalIDs : GetWalletCustomerPaymentInfo(id)
  \/ \E id \in ExternalIDs, s \in Schemas("DeleteWalletCustomerSchema") :
       DeleteWalletCustomerPayment(id, s)
  \/ \E r \in UserRequests, dst \in Destinations : Send(r, dst)
  \/ \E body \in Bodies : GetPaymentCallbackFromBytes(body)
  \/ \E r \in PaymentResponses : SerializedCallback(r)
  \/ \E out \in Outcomes : RoundTrip(out)
  \/ Return

Spec == Init /\ [][Next]_vars

(***************************************************************************)
(* Two goroutines calling the per-operation methods of one Client.  The    *)
(* Config is shared and read only; the request, the response, the body     *)
(* read from it and the destination are locals of each call, so each       *)
(* variable of the call is a function of the goroutine.  Send is cut at    *)
(* the points where it waits: the round trip and the reading of the body.  *)
(* An unrecovered panic in one goroutine ends the program, and with it the *)
(* calls of the other goroutine.                                           *)
(***************************************************************************)
Goroutines == {"g1", "g2"}

\* What the transport answers in the concurrent runs.
Answers ==
  { DoError,
    Response(200, Bytes(JObject([id |-> JString("pay-1"),
                                 is_success |-> JBool(TRUE)]))),
    Response(200, NotJSON(6)),
    Response(300, NotJSON(0)),
    Response(300, Bytes(JObject([code |-> JString("transaction_declined")]))),
    Response(300, Bytes(JNull)) }

\* No goroutine has panicked: the program is running.
Running == \A g \in Goroutines : pc[g] # "panicked"

ConcInit ==
  /\ \E args \in Constructors : /\ cfg = Construct(args)
                                /\ hist = Constructed(args)
  /\ pc = [g \in Goroutines |-> "idle"]
  /\ call = [g \in Goroutines |-> NoCall]
  /\ sent = [g \in Goroutines |-> <<>>]
  /\ resp = [g \in Goroutines |-> DoError]
  /\ v = [g \in Goroutines |-> NilInterface]
  /\ ret = [g \in Goroutines |-> NotReturned]
  /\ result = [g \in Goroutines |-> NoResult]
  /\ log = [g \in Goroutines |-> <<>>]
  /\ events = [g \in Goroutines |-> <<>>]

\* Goroutine g enters a per-operation method: NewRequest, the early return
\* on its error, then Send up to the call of c.httpClient.Do.
Go(g, op, method, path, payload, query, dst) ==
  LET nr == NewRequest(method, cfg.API \o path, payload, query)
      s  == SendRequest(cfg, nr.req)
  IN  /\ Running
      /\ pc[g] = "idle"
      /\ IF nr.err # NoError
           THEN /\ pc' = [pc EXCEPT ![g] = "returned"]
                /\ call' = [call EXCEPT ![g] =
                              [v |-> NilInterface, payload |-> payload,
                               query |-> query, req |-> NoRequest,
                               body |-> NotJSON(0), op |-> op]]
                /\ result' = [result EXCEPT ![g] =
                                [err |-> nr.err, resp |-> NilPtr,
                                 resended |-> FALSE]]
                /\ UNCHANGED <<cfg, hist, sent, resp, v, ret, log, events>>
           ELSE /\ pc' = [pc EXCEPT ![g] = "inflight"]
                /\ call' = [call EXCEPT ![g] =
                              [v |-> dst, payload |-> payload,
                               query |-> query, req |-> nr.req,
                               body |-> NotJSON(0), op |-> op]]
                /\ sent' = [sent EXCEPT ![g] = <<s.req>>]
                /\ v' = [v EXCEPT ![g] = dst]
                /\ log' = [log EXCEPT ![g] = s.log]
                /\ events' = [events EXCEPT ![g] = s.events]
                /\ UNCHANGED <<cfg, hist, resp, ret, result>>

GoCreatePayment(g, schema) ==
  Go(g, "CreatePayment", "POST", "payments/v1/new",
     Iface(schema), NoQuery, New("PaymentResponse"))

GoGetPaymentInfo(g, externalID) ==
  Go(g, "GetPaymentInfo", "GET", "payments/v1/info",
     NilInterface, [k \in {"external_id"} |-> externalID],
     New("PaymentInfoResponse"))

GoResendPaymentCallback(g, schema) ==
  Go(g, "ResendPaymentCallback", "POST", "payments/v1/callback/resend",
     Iface(schema), NoQuery, NilInterface)

\* c.httpClient.Do returns to goroutine g with the answer out, and the body
\* is read into the local of that call.
Answer(g, out) ==
  /\ Running
  /\ pc[g] = "inflight"
  /\ pc' = [pc EXCEPT ![g] = "read"]
  /\ resp' = [resp EXCEPT ![g] = out]
  /\ UNCHANGED <<cfg, hist, call, sent, v, ret, result, log, events>>

\* The program after goroutine g panicked: g is unwound, the calls in
\* progress in the other goroutines are ended with the program, while
\* waiting for the transport ("killed inflight") or after its answer
\* ("killed").
Exit(g) ==
  [h \in Goroutines |->
     IF h = g THEN "panicked"
     ELSE IF pc[h] = "inflight" THEN "killed inflight"
     ELSE IF pc[h] = "read" THEN "killed"
     ELSE pc[h]]

\* The rest of Send in goroutine g, then the rest of the per-operation
\* method.
Finish(g) ==
  LET s == SendResponse(cfg, sent[g][Len(sent[g])], v[g], resp[g])
  IN  /\ Running
      /\ pc[g] = "read"
      /\ ret' = [ret EXCEPT ![g] = s.ret]
      /\ v' = [v EXCEPT ![g] = s.v]
      /\ log' = [log EXCEPT ![g] = log[g] \o s.log]
      /\ events' = [events EXCEPT ![g] = events[g] \o s.events]
      /\ IF s.ret = Panic
           THEN pc' = Exit(g) /\ UNCHANGED result
           ELSE /\ pc' = [pc EXCEPT ![g] = "returned"]
                /\ result' = [result EXCEPT ![g] =
                                MethodReturn(call[g].op, s)]
      /\ UNCHANGED <<cfg, hist, call, sent, resp>>

\* The method has returned in goroutine g, which goes on.
Done(g) ==
  /\ Running
  /\ pc[g] = "returned"
  /\ pc' = [pc EXCEPT ![g] = "idle"]
  /\ call' = [call EXCEPT ![g] = NoCall]
  /\ sent' = [sent EXCEPT ![g] = <<>>]
  /\ resp' = [resp EXCEPT ![g] = DoError]
  /\ v' = [v EXCEPT ![g] = NilInterface]
  /\ ret' = [ret EXCEPT ![g] = NotReturned]
  /\ result' = [result EXCEPT ![g] = NoResult]
  /\ log' = [log EXCEPT ![g] = <<>>]
  /\ events' = [events EXCEPT ![g] = <<>>]
  /\ UNCHANGED <<cfg, hist>>

ConcNext ==
  \/ \E g \in Goroutines, s \in Schemas("CreatePaymentSchema") :
       GoCreatePayment(g, s)
  \/ \E g \in Goroutines, id \in ExternalIDs : GoGetPaymentInfo(g, id)
  \/ \E g \in Goroutines, s \in Schemas("PaymentCallbackResendSchema") :
       GoResendPaymentCallback(g, s)
  \/ \E g \in Goroutines, out \in Answers : Answer(g, out)
  \/ \E g \in Goroutines : Finish(g)
  \/ \E g \in Goroutines : Done(g)

Concurrent == ConcInit /\ [][ConcNext]_vars

(***************************************************************************)
(* Properties.                                                             *)
(***************************************************************************)
\* Send was entered and is over (returned or panicked).
SendDone == pc \in {"returned", "panicked"} /\ sent # <<>>

\* Send is over and the transport had answered with a response whose body
\* was read.
Answered == SendDone /\ ~ resp.err /\ ~ resp.readErr

Is2xx == resp.StatusCode >= 200 /\ resp.StatusCode <= 299

IsDecodeError(e) == e.kind \in {"json.SyntaxError", "json.UnmarshalTypeError"}

\* The JSON type a field of each kind is decoded from.
JSONType(f) == IF f.kind \in {"string", "time"} THEN "string"
               ELSE IF f.kind = "bool" THEN "bool"
               ELSE IF f.kind = "number" THEN "number" ELSE "object"

\* The body is a JSON object each of whose members named like a field of T
\* has the JSON type of that field.
Matches(T, b) ==
  /\ b.valid
  /\ b.doc.t = "object"
  /\ \A name \in DOMAIN b.doc.o \cap FieldNames(T) :
       b.doc.o[name].t = JSONType(Field(T, name))

\* The body is no JSON, or a JSON value other than an object and null, or an
\* object with a member that is neither null nor of the type of its field.
Undecodable(T, b) ==
  \/ ~ b.valid
  \/ b.doc.t \notin {"object", "null"}
  \/ /\ b.doc.t = "object"
     /\ \E name \in DOMAIN b.doc.o \cap FieldNames(T) :
          b.doc.o[name].t \notin {"null", JSONType(Field(T, name))}

HasStringCode(b) ==
  /\ b.valid
  /\ b.doc.t = "object"
  /\ "code" \in DOMAIN b.doc.o
  /\ b.doc.o["code"].t = "string"

\* C1: a response with a status outside 200..299 whose body is a JSON object
\* with a string member "code" = c makes Send return an error whose Error()
\* string is exactly c, for every string c.
C1_ErrorStringIsCode ==
  (Answered /\ ~ Is2xx /\ HasStringCode(resp.body))
    => (ret.kind = "fmt.Errorf" /\ ret.msg = resp.body.doc.o["code"].s)

\* C2: for every response with a status outside 200..299 Send returns a
\* non-nil error, whatever the body is; it neither returns nil nor panics.
C2_FailureReturnsError ==
  (SendDone /\ ~ resp.err /\ ~ Is2xx)
    => ret.kind \notin {"nil", "panic", "none"}

\* C3: a status outside 200..299 with a zero-length body makes Send return
\* ErrResponseIsEmpty without any JSON decoding, and ErrResponseIsEmpty is
\* returned in that case only.
C3_EmptyResponse ==
  SendDone =>
    /\ (~ resp.err /\ ~ resp.readErr /\ ~ Is2xx /\ BytesLen(resp.body) = 0)
         => /\ ret = ErrResponseIsEmpty
            /\ \A i \in 1..Len(events) : events[i] # "Unmarshal"
    /\ ret = ErrResponseIsEmpty
         => /\ ~ resp.err /\ ~ resp.readErr
            /\ ~ Is2xx
            /\ BytesLen(resp.body) = 0

C3_Witness ==
  /\ pc = "returned"
  /\ resp = Response(300, NotJSON(0))
  /\ ret = ErrResponseIsEmpty

\* C4: a status in 200..299, a body matching the destination type and a
\* non-nil destination make Send return nil with every member of the body
\* stored in its field and the other fields as they were; and Send returns
\* nil for a status in 200..299 only.
C4_SuccessDecodes ==
  SendDone =>
    /\ ( /\ ~ resp.err /\ ~ resp.readErr /\ Is2xx
         /\ call.v # NilInterface
         /\ Matches(call.v.ptr.type, resp.body) )
         => /\ ret = NoError
            /\ v.ptr.type = call.v.ptr.type
            /\ \A name \in FieldNames(call.v.ptr.type) :
                 v.ptr.val[name] =
                   IF name \in DOMAIN resp.body.doc.o
                     THEN LET m == resp.body.doc.o[name]
                          IN  IF m.t = "string" THEN m.s ELSE m.b
                     ELSE call.v.ptr.val[name]
    /\ ret = NoError => (~ resp.err /\ ~ resp.readErr /\ Is2xx)

C4_Witness ==
  /\ pc = "returned"
  /\ resp.StatusCode = 299
  /\ ret = NoError
  /\ call.op = "Send" /\ call.v # NilInterface
  /\ call.v.ptr.val.id = "old"
  /\ v.ptr.val.id = "pay-1"
  /\ v.ptr.val.is_success

\* C5: a JSON decode failure reaches the caller as the decoding error, for a
\* status in 200..299 with a non-nil destination and for a status outside
\* 200..299 with a non-empty body.
C5_DecodeFailure ==
  Answered =>
    /\ (Is2xx /\ call.v # NilInterface
          /\ Undecodable(call.v.ptr.type, resp.body))
         => IsDecodeError(ret)
    /\ (~ Is2xx /\ BytesLen(resp.body) # 0
          /\ Undecodable("ErrorResponse", resp.body))
         => IsDecodeError(ret)

C5_Witness ==
  /\ pc = "returned"
  /\ resp = Response(200, Bytes(JObject([id |-> JNumber(5),
                                         is_success |-> JBool(TRUE)])))
  /\ call.v # NilInterface
  /\ ret = UnmarshalTypeError

\* C6: with a nil destination and a status in 200..299 Send returns nil
\* without decoding, whatever the body; so ResendPaymentCallback returns
\* (true, nil) exactly when the round trip ends with a status in 200..299 and
\* (false, err) otherwise.
C6_NilDestination ==
  /\ (Answered /\ Is2xx /\ call.v = NilInterface)
       => /\ ret = NoError
          /\ \A i \in 1..Len(events) : events[i] # "Unmarshal"
  /\ (SendDone /\ call.op = "ResendPaymentCallback")
       => IF ~ resp.err /\ ~ resp.readErr /\ Is2xx
            THEN result.resended /\ result.err = NoError
            ELSE ~ result.resended /\ result.err.kind \notin {"nil", "none"}

\* The part of C6 about Send alone.
C6_SendPart ==
  (Answered /\ Is2xx /\ call.v = NilInterface)
    => /\ ret = NoError
       /\ \A i \in 1..Len(events) : events[i] # "Unmarshal"

\* C7: every request handed to the transport carries exactly two headers,
\* Content-type: application/json and Authorization: "Basic " + BasicAuth
\* (header names compare without regard to case in HTTP), whatever headers
\* the request had before.
C7_TwoHeaders ==
  \A i \in 1..Len(sent) :
    /\ DOMAIN sent[i].Header = {"Content-type", "Authorization"}
    /\ sent[i].Header["Content-type"] = <<"application/json">>
    /\ sent[i].Header["Authorization"] = <<"Basic " \o cfg.BasicAuth>>

C7_Witness ==
  /\ pc = "inflight"
  /\ DOMAIN call.req.Header = {"Authorization", "Accept"}
  /\ Len(sent) = 1

Count(e, seq) == Cardinality({ i \in 1..Len(seq) : seq[i] = e })

\* The steps of a call other than logging.
Transport(seq) == SelectSeq(seq, LAMBDA e : e # "Printf")

\* C8: a Send hands the request to the transport exactly once; on a
\* transport error the error is returned at once, with no second attempt, no
\* body read and no decoding.
C8_OneDispatch ==
  /\ pc = "inflight" => (Count("Do", events) = 1 /\ Len(sent) = 1)
  /\ SendDone =>
       /\ Count("Do", events) = 1
       /\ Len(sent) = 1
       /\ resp.err => (ret = TransportError /\ Transport(events) = <<"Do">>)

C8_Witness == pc = "returned" /\ sent # <<>> /\ resp.err /\ ret = TransportError

IndexOf(s, c) ==
  IF \E i \in 1..Len(s) : Char(s, i) = c
    THEN CHOOSE i \in 1..Len(s) :
           Char(s, i) = c /\ \A j \in 1..(i - 1) : Char(s, j) # c
    ELSE 0

\* The printable ASCII character of a byte.
Chr(n) ==
  IF n = 32 THEN " "
  ELSE IF n = 33 THEN "!"
  ELSE IF n >= 35 /\ n <= 91 THEN Char(AsciiLow, n - 34)
  ELSE Char(AsciiHigh, n - 92)

HexValue(c) == (CHOOSE i \in 1..16 : Char(UpperHex, i) = c) - 1

\* url.QueryUnescape, as the receiving server applies it.
RECURSIVE QueryUnescape(_)
QueryUnescape(s) ==
  IF Len(s) = 0 THEN ""
  ELSE LET c == Char(s, 1)
       IN  IF c = "+" THEN " " \o QueryUnescape(SubSeq(s, 2, Len(s)))
           ELSE IF c = "%"
             THEN Chr(HexValue(Char(s, 2)) * 16 + HexValue(Char(s, 3)))
                    \o QueryUnescape(SubSeq(s, 4, Len(s)))
           ELSE c \o QueryUnescape(SubSeq(s, 2, Len(s)))

\* url.ParseQuery: the set of (key, value) pairs of a raw query.
RECURSIVE ParseQuery(_)
ParseQuery(raw) ==
  IF Len(raw) = 0 THEN {}
  ELSE LET i    == IndexOf(raw, "&")
           part == IF i = 0 THEN raw ELSE SubSeq(raw, 1, i - 1)
           rest == IF i = 0 THEN "" ELSE SubSeq(raw, i + 1, Len(raw))
           j    == IndexOf(part, "=")
           key  == IF j = 0 THEN part ELSE SubSeq(part, 1, j - 1)
           val  == IF j = 0 THEN "" ELSE SubSeq(part, j + 1, Len(part))
       IN  {<<QueryUnescape(key), QueryUnescape(val)>>} \cup ParseQuery(rest)

\* The operation table: method, path, whether the call carries the query
\* external_id=<id>, whether it carries the schema as its body.
Row(method, path, query, body) ==
  [method |-> method, query |-> query, body |-> body, path |-> path]

OperationTable ==
  [ CreatePayment |-> Row("POST", "payments/v1/new", FALSE, TRUE),
    ConfirmPayment |-> Row("POST", "payments/v1/confirm", FALSE, TRUE),
    CancelPayment |-> Row("POST", "payments/v1/cancel", FALSE, TRUE),
    RefundPayment |-> Row("POST", "payments/v1/refund", FALSE, TRUE),
    GetPaymentInfo |-> Row("GET", "payments/v1/info", TRUE, FALSE),
    ResendPaymentCallback |->
      Row("POST", "payments/v1/callback/resend", FALSE, TRUE),
    AddWalletCustomerPayment |-> Row("POST", "customers/v1/wallet", TRUE, TRUE),
    GetWalletCustomerPaymentInfo |->
      Row("GET", "customers/v1/wallet", TRUE, FALSE),
    DeleteWalletCustomerPayment |->
      Row("DELETE", "customers/v1/wallet", TRUE, TRUE) ]

\* C9: a per-operation method whose request could be built hands exactly one
\* request to the transport, with the method of the operation table, the
\* table's path appended to Config.API, the query external_id=<id> alone or
\* no query, and the JSON of the schema as its body or no body.
C9_OperationTable ==
  (pc # "idle" /\ call.op \in DOMAIN OperationTable) =>
    LET row == OperationTable[call.op]
    IN  IF result.err = URLError THEN sent = <<>>
        ELSE /\ Len(sent) = 1
             /\ sent[1].Method = row.method
             /\ sent[1].URL = cfg.API \o row.path
             /\ IF row.query
                  THEN ParseQuery(sent[1].RawQuery)
                         = {<<"external_id", call.query["external_id"]>>}
                  ELSE sent[1].RawQuery = ""
             /\ IF row.body
                  THEN /\ sent[1].Body.present
                       /\ sent[1].Body.bytes.valid
                       /\ sent[1].Body.bytes.doc = Marshal(call.payload.ptr)
                  ELSE sent[1].Body = NoBody

C9_Witness ==
  /\ pc = "inflight"
  /\ call.op = "DeleteWalletCustomerPayment"
  /\ call.query["external_id"] = "a b&c"
  /\ call.payload.ptr # NilPtr
  /\ sent[1].Method = "DELETE"
  /\ sent[1].RawQuery = "external_id=a+b%26c"

\* C10: the Debug flag does not affect control flow: with Debug inverted and
\* the same request, destination and answer of the transport, Send hands the
\* same request to the transport, returns the same error and leaves the
\* destination in the same state.
C10_DebugNoEffect ==
  SendDone =>
    LET other == [cfg EXCEPT !.Debug = ~ cfg.Debug]
        first == SendRequest(other, call.req)
        rest  == SendResponse(other, first.req, call.v, resp)
    IN  /\ first.req = sent[1]
        /\ rest.ret = ret
        /\ rest.v = v

C10_Witness ==
  /\ pc = "returned"
  /\ cfg.Debug
  /\ Len(log) = 2
  /\ ret = NoError
  /\ v # call.v

\* C11: the log is gated by Config.Debug: with Debug false a call logs no
\* line, on any path of Send.
C11_LogGated == (pc # "idle" /\ ~ cfg.Debug) => log = <<>>

\* The call was GetPaymentCallbackFromBytes and has returned.
Parsed == pc = "returned" /\ call.op = "GetPaymentCallbackFromBytes"

\* C12: GetPaymentCallbackFromBytes returns either a non-nil PaymentResponse
\* and a nil error or nil and a non-nil error, never nil and nil; it fails for
\* every input that is no JSON object matching PaymentResponse (the empty
\* slice, null and the other JSON values that are no object among them).
C12_ParseOrFail ==
  Parsed =>
    /\ \/ result.resp # NilPtr /\ result.err = NoError
       \/ result.resp = NilPtr /\ result.err # NoError
    /\ (~ call.body.valid \/ call.body.doc.t # "object")
         => result.err # NoError

\* A CreatePayment request is with the transport: its schema and the members
\* of the JSON object it carries.
CreateSent ==
  /\ pc = "inflight"
  /\ call.op = "CreatePayment"
  /\ call.payload.ptr # NilPtr

\* C13: a callback (result) URL set in the Config is carried by the
\* CreatePayment request as callback_url (result_url) when the schema leaves
\* its own empty.
C13_ConfigURLs ==
  CreateSent =>
    LET schema == call.payload.ptr.val
        o      == sent[1].Body.bytes.doc.o
    IN  /\ (cfg.CallbackURL # "" /\ schema.callback_url = "")
             => /\ "callback_url" \in DOMAIN o
                /\ o["callback_url"] = JString(cfg.CallbackURL)
        /\ (cfg.ResultURL # "" /\ schema.result_url = "")
             => /\ "result_url" \in DOMAIN o
                /\ o["result_url"] = JString(cfg.ResultURL)

\* The value of a field that was left unset.
Unset(f) ==
  CASE f.kind = "string" -> ""
    [] f.kind = "bool"   -> FALSE
    [] f.kind = "number" -> 0
    [] f.kind = "time"   -> ZeroTime
    [] f.kind = "ptr"    -> NilPtr
    [] f.kind = "struct" -> ZeroValue(f.elem)

\* In the JSON object o made of the struct val, every omitempty field left
\* unset is absent, in the structs inside it too.
RECURSIVE OmitsUnset(_, _, _)
OmitsUnset(T, val, o) ==
  \A f \in Fields(T) :
    /\ (f.omitempty /\ val[f.name] = Unset(f)) => f.name \notin DOMAIN o
    /\ (f.name \in DOMAIN o /\ f.kind = "struct")
         => OmitsUnset(f.elem, val[f.name], o[f.name].o)
    /\ (f.name \in DOMAIN o /\ f.kind = "ptr" /\ val[f.name] # NilPtr)
         => OmitsUnset(f.elem, val[f.name].val, o[f.name].o)

\* C14: in the body NewRequest makes of a request schema every omitempty
\* field left unset is absent, whatever its type (struct-typed fields
\* included), and decoding the body gives back the schema field for field.
C14_OmitEmptyRoundTrip ==
  (pc = "inflight" /\ call.payload # NilInterface /\ call.payload.ptr # NilPtr)
    => LET T     == call.payload.ptr.type
           val   == call.payload.ptr.val
           bytes == sent[1].Body.bytes
           back  == Unmarshal(bytes, T, ZeroValue(T))
       IN  /\ OmitsUnset(T, val, bytes.doc.o)
           /\ back.err = NoError
           /\ back.val = val

\* C17: a CreatePayment request with mode "direct" has a customer, and the
\* customer a payment method.
C17_DirectHasCustomer ==
  CreateSent =>
    LET o == sent[1].Body.bytes.doc.o
    IN  o["mode"] = JString("direct")
          => /\ o["customer"] # JNull
             /\ o["customer"].o["payment_method"].o # NoMembers

\* The body is a JSON object with a string member of that name.
HasString(b, name) ==
  /\ b.valid
  /\ b.doc.t = "object"
  /\ name \in DOMAIN b.doc.o
  /\ b.doc.o[name].t = "string"

\* C15: a value of a string-backed enumeration decodes without error and is
\* kept as it is, in the known set or not: the code of an error body (seen
\* in the line Send logs), the status of an AddWalletCustomerResponse, the
\* status code in the details of a PaymentResponse given to
\* GetPaymentCallbackFromBytes.
C15_OpenEnums ==
  /\ Answered =>
       /\ (~ Is2xx /\ HasString(resp.body, "code"))
            => /\ ~ IsDecodeError(ret)
               /\ ret.kind = "fmt.Errorf"
               /\ log[Len(log)].code = resp.body.doc.o["code"].s
       /\ ( /\ Is2xx
            /\ call.op = "AddWalletCustomerPayment"
            /\ HasString(resp.body, "status")
            /\ Matches("AddWalletCustomerResponse", resp.body) )
            => /\ ret = NoError
               /\ result.err = NoError
               /\ result.resp.val.status = resp.body.doc.o["status"].s
  /\ (Parsed /\ call.payload # NilInterface)
       => /\ result.err = NoError
          /\ result.resp.val.details.status_code
               = call.body.doc.o["details"].o["status_code"].s

C15_Witness ==
  /\ pc = "returned"
  /\ call.op = "AddWalletCustomerPayment"
  /\ result.err = NoError
  /\ result.resp # NilPtr
  /\ result.resp.val.status = "future_status"
  /\ result.resp.val.status \notin KnownValues

\* C16 as claimed: a PaymentResponse r serialized to JSON and passed to
\* GetPaymentCallbackFromBytes comes back with a nil error and equal to r,
\* for every r.
C16_RoundTrip ==
  (Parsed /\ call.payload # NilInterface)
    => /\ result.err = NoError
       /\ result.resp = call.payload.ptr

\* No time of the PaymentResponse carries a monotonic clock reading.
NoReading(r) == r.details.created_at.mono = 0

\* C16 as amended: the same for every r whose times carry no monotonic clock
\* reading, as is the case of every r that was decoded from JSON.
C16_RoundTripDecoded ==
  (Parsed /\ call.payload # NilInterface /\ NoReading(call.payload.ptr.val))
    => /\ result.err = NoError
       /\ result.resp = call.payload.ptr

C16_Witness ==
  /\ Parsed
  /\ call.payload # NilInterface
  /\ call.payload.ptr.val.details.created_at
       = Time("2024-05-06T07:08:09", "+02:00", 0)
  /\ call.body.doc.o["details"].o["created_at"]
       = JString("2024-05-06T07:08:09+02:00")
  /\ result.resp = call.payload.ptr

\* The Basic-Auth token of each pair of credentials: the base64 text of
\* login ":" password, taken from RFC 4648 encoders other than the model's.
Token(args) ==
  IF args = <<>>
  THEN "YTZhMjkwMDItZGM2OC00OTE4LWJjNWQtNTFhNjA5NGIxNGE4OlhDaHozSjhxcnI="
  ELSE IF args = <<"login", "password">> THEN "bG9naW46cGFzc3dvcmQ="
  ELSE "OnA6dw=="

\* C18: NewConfig(login, password) returns a Config whose BasicAuth is the
\* base64 text of login ":" password, whose API is the production URL, whose
\* Debug is false and whose ResultURL and CallbackURL are empty, whatever the
\* login and the password; NewDevelopmentConfig returns what NewConfig returns
\* on the sandbox pair, but with Debug true.
C18_Constructors ==
  hist.made = [ API         |-> "https://api.rozetkapay.com/api/",
                BasicAuth   |-> Token(hist.args),
                ResultURL   |-> "",
                CallbackURL |-> "",
                Debug       |-> (hist.args = <<>>) ]

\* A Config just built from an empty login and a password holding a colon.
C18_Witness ==
  /\ hist.args = <<"", "p:w">>
  /\ hist.API = <<>> /\ hist.ResultURL = <<>>
  /\ hist.CallbackURL = <<>> /\ hist.Debug = <<>>
  /\ cfg = hist.made
  /\ cfg.BasicAuth = "OnA6dw=="

\* C19: each setter stores its argument in its own field of the receiver and
\* in no other: after any calls of the setters, BasicAuth is what the
\* constructor made it, API is what the constructor made it unless it was
\* stored to directly, and each of CallbackURL, ResultURL and Debug is the
\* argument of the last call of its setter, or what the constructor made it
\* if its setter was never called.
C19_Setters ==
  /\ cfg.BasicAuth = hist.made.BasicAuth
  /\ cfg.API = IF hist.API = <<>> THEN hist.made.API
               ELSE hist.API[1]
  /\ cfg.CallbackURL = IF hist.CallbackURL = <<>>
                       THEN hist.made.CallbackURL
                       ELSE hist.CallbackURL[1]
  /\ cfg.ResultURL = IF hist.ResultURL = <<>>
                     THEN hist.made.ResultURL
                     ELSE hist.ResultURL[1]
  /\ cfg.Debug = IF hist.Debug = <<>> THEN hist.made.Debug
                 ELSE hist.Debug[1]

\* All three setters were called on the development Config, SetDebugMode
\* last with false, and no field was stored to directly.
C19_Witness ==
  /\ hist.args = <<>>
  /\ hist.API = <<>>
  /\ hist.CallbackURL # <<>>
  /\ hist.ResultURL # <<>>
  /\ hist.Debug = <<FALSE>>
  /\ ~ cfg.Debug
  /\ cfg.API = API_URL

\* How the call of goroutine g ended: with a return and its result, or
\* without one.
Ending(g) == [result |-> result[g], returned |-> pc[g] = "returned"]

\* How the call of goroutine g ends when it runs alone on the Client and the
\* transport answers it what it answered in this run.
Alone(g) ==
  LET nr == SendRequest(cfg, call[g].req)
      s  == SendResponse(cfg, nr.req, call[g].v, resp[g])
  IN  IF s.ret = Panic THEN [result |-> NoResult, returned |-> FALSE]
      ELSE [result |-> MethodReturn(call[g].op, s), returned |-> TRUE]

\* The call of goroutine g was answered by the transport and is over.
Over(g) == pc[g] \in {"returned", "panicked", "killed"} /\ sent[g] # <<>>

\* C20: whatever the interleaving of two per-operation calls on one Client,
\* each call ends as it ends when run alone against the same answer of the
\* transport.
C20_NoInterference ==
  \A g \in Goroutines : Over(g) => Ending(g) = Alone(g)

\* The same, of the runs in which no call panics.
C20_NoInterferenceRunning ==
  Running => \A g \in Goroutines : Over(g) => Ending(g) = Alone(g)

\* Both goroutines have returned from calls answered differently, one with a
\* payment and one with an error code.
C20_Returned ==
  /\ pc["g1"] = "returned" /\ pc["g2"] = "returned"
  /\ result["g1"].err = NoError /\ result["g1"].resp # NilPtr
  /\ result["g2"].err.kind = "fmt.Errorf"

\* The payload a per-operation method was given is null: no payload at all,
\* or a nil schema pointer.
NullPayload(p) == p = NilInterface \/ p.ptr = NilPtr

\* C21: the request a per-operation method dispatches has a body exactly
\* when its payload is not null; a nil schema pointer, as in
\* CreatePayment(nil), gives a request with no body.
C21_BodyIffPayload ==
  (sent # <<>> /\ call.op # "Send") =>
    (sent[1].Body.present <=> ~ NullPayload(call.payload))

\* The half of C21 about NewRequest itself: no payload, no body, and a
\* payload that is a pointer to a schema, a body.
C21_NewRequestPart ==
  (sent # <<>> /\ call.op # "Send") =>
    /\ call.payload = NilInterface => ~ sent[1].Body.present
    /\ (call.payload # NilInterface /\ call.payload.ptr # NilPtr) =>
         sent[1].Body.present

\* The line is the Debug line of a response.
IsResponseLine(l) == l.level = "Debug" /\ l.type = "response"

\* Send got a response with a status in 200..299, read its body and has a
\* destination to decode it into.
Decodes == ~ resp.err /\ ~ resp.readErr /\ Is2xx /\ call.v # NilInterface

\* C22: with Debug set, the request line (method, URL) is logged on every
\* Send before the request is handed to the transport, also when the
\* transport then fails; the response line (status code, byte count) is
\* logged only for a status in 200..299 with a non-nil destination, after the
\* body has been read and before it is decoded.
C22_TraceOrder ==
  (cfg.Debug /\ sent # <<>>) =>
    /\ log # <<>>
    /\ log[1].level = "Debug" /\ log[1].type = "request"
    /\ log[1].method = sent[1].Method
    /\ log[1].url = URLString(sent[1])
    /\ SubSeq(events, 1, 2) = <<"Printf", "Do">>
    /\ SendDone =>
         IF Decodes
           THEN /\ events = <<"Printf", "Do", "ReadAll", "Printf",
                              "Unmarshal", "Close">>
                /\ Len(log) = 2
                /\ IsResponseLine(log[2])
                /\ log[2].code = resp.StatusCode
                /\ log[2].bytes = BytesLen(resp.body)
           ELSE \A i \in 1..Len(log) : ~ IsResponseLine(log[i])

\* With Debug set, a call answered with status 299 returned after both lines
\* were logged and the body decoded into the destination.
C22_Witness ==
  /\ pc = "returned"
  /\ cfg.Debug
  /\ Decodes
  /\ resp.StatusCode = 299
  /\ Len(log) = 2
  /\ ret = NoError
  /\ v # call.v

\* The per-operation methods that return a typed response.
Typed ==
  { "CreatePayment", "ConfirmPayment", "CancelPayment", "RefundPayment",
    "GetPaymentInfo", "AddWalletCustomerPayment",
    "GetWalletCustomerPaymentInfo", "DeleteWalletCustomerPayment" }

\* What a typed method returned is a non-nil response with a nil error or a
\* nil response with a non-nil error; an error of Send (a failed decode
\* too) gives the latter, and so does a failure of NewRequest, with nothing
\* handed to the transport.
OneOfTwo ==
  /\ (result.resp # NilPtr) <=> (result.err = NoError)
  /\ (sent # <<>> /\ ret # NoError) =>
       (result.resp = NilPtr /\ result.err = ret)
  /\ sent = <<>> => (result.err # NoError /\ events = <<>>)

\* C23: every call of a per-operation method with a typed response returns,
\* and returns exactly one of a non-nil response with a nil error and a nil
\* response with a non-nil error: never a response partly filled by a failed
\* decode, and an error without any dispatch when the request cannot be
\* built.
C23_OneOfTwo ==
  (call.op \in Typed /\ pc \in {"returned", "panicked"}) =>
    (pc = "returned" /\ OneOfTwo)

\* The same, of the calls that return.
C23_Returned == (call.op \in Typed /\ pc = "returned") => OneOfTwo

\* C24: when the transport answered with a response, Send closes its body
\* exactly once, as its last step, whichever way it ends; when the transport
\* answered with an error, Send closes nothing.
C24_CloseOnce ==
  SendDone =>
    IF resp.err THEN Count("Close", events) = 0
    ELSE /\ Count("Close", events) = 1
         /\ events[Len(events)] = "Close"

\* Send returned the error of reading the body, and closed the body.
C24_Witness ==
  /\ pc = "returned"
  /\ sent # <<>>
  /\ resp.readErr
  /\ ret = ReadError
  /\ events[Len(events)] = "Close"
======================================================================
